---- MODULE Spec2Model ----
(***************************************************************************)
(* Model of the scan application: the Electron main process                *)
(* (src/electron-main.js: worker supervision, IPC handlers, preload        *)
(* bridge) and the renderer's scan session (src/renderer/renderer.js;      *)
(* src/unnamed/part_000 is a second copy of the same renderer logic).      *)
(*                                                                         *)
(* Every JavaScript callback is one atomic action (run-to-completion in    *)
(* its event loop).  The worker process is an opaque environment: while    *)
(* live it may print any line of the alphabet and may exit at any time.    *)
(* app.quit() only requests the end of the application; the behaviours     *)
(* of the running application are prefixes of the behaviours below.        *)
(***************************************************************************)
EXTENDS Integers, Sequences, FiniteSets, TLC

\* ---------------------------------------------------------------- bounds
MaxWorkers == 3     \* worker processes ever spawned
MaxEmit    == 2     \* lines / chunks printed by all workers together
SupervisorClicks == 3   \* user clicks followed in SpecSupervisor
SessionClicks    == 2   \* user clicks followed in SpecSession
ChannelClicks    == 1   \* user clicks followed in SpecChannel
FacadeClicks     == 2   \* user clicks followed in SpecFacade
EventsClicks     == 1   \* user clicks followed in SpecEvents
MaxWindows == 2     \* windows ever created
MaxQueue   == 2     \* messages in flight in one IPC direction
MaxLog     == 2     \* log lines kept in view

Workers  == 1..MaxWorkers
NoWorker == 0       \* pythonProcess = null

\* --------------------------------------------------------- input alphabets
Paths      == {"", "/a", "/a ", "/b"}
Thresholds == {15}

LineStatus    == "{\"event\":\"status\",\"message\":\"Scanning\"}"
LineLog       == "{\"event\":\"log\",\"message\":\"Original (kept) a.png\"}"
LineProgress  == "{\"event\":\"progress\",\"current\":1,\"total\":2}"
LineComplete  == "{\"event\":\"complete\",\"summary\":\"Done!\",\"errors\":0}"
LineCancelled == "{\"event\":\"cancelled\"}"
LineError     == "{\"event\":\"error\",\"message\":\"bad file\"}"
LineGarbage   == "Traceback (most recent call last):"
LineNull      == "null"
LineNumber    == "42"
LineNoEvent   == "{\"x\":1}"
LineString    == "\"hi\""
LineArray     == "[1]"
LineProgressOver == "{\"event\":\"progress\",\"current\":3,\"total\":2}"
LineProgressZero == "{\"event\":\"progress\",\"current\":0,\"total\":0}"
LineProgressNeg  == "{\"event\":\"progress\",\"current\":-1,\"total\":2}"

CoreLines == {LineComplete, LineCancelled, LineError}
AllLines  == {LineStatus, LineLog, LineProgress, LineComplete, LineCancelled,
              LineError, LineGarbage, LineNull, LineNumber, LineNoEvent,
              LineString, LineArray}
EventLines == {LineStatus, LineLog, LineProgress, LineProgressOver,
               LineProgressZero, LineProgressNeg, LineError, LineComplete,
               LineCancelled}
Chunks    == {"boom\n", "  \n"}
ExitCodes == {0, 1}

VARIABLES
  mainWindow,      \* "null" | "open"                       electron-main.js:6
  quitRequested,   \* app.quit() has been called
  windows,         \* windows created so far
  pythonProcess,   \* NoWorker or the worker referenced      electron-main.js:7
  worker,          \* per worker: "unborn" | "live" | "exited" | "broken" | "closed"
  exitCode,        \* per worker: <<>> (null) or <<code>>
  stdin,           \* per worker: lines written to its input
  stdout,          \* per worker: lines printed, not yet read by readline
  stderr,          \* per worker: chunks printed, not yet read
  emitted,         \* lines and chunks printed so far (emission stamp)
  ignored,         \* per worker: stamp of the last stdout line dropped as non-JSON
  timers,          \* pending grace timers, in firing order
  invokeQueue,     \* ipcRenderer.invoke requests in flight
  ipcQueue,        \* "backend-event" messages and invoke replies in flight
  isScanning, btnStartDisabled, btnCancelDisabled,
  statusText, summaryHidden, summaryText, hasErrors,
  progressWidth, progressCount, log, logStarted,
  rendererFault,   \* the renderer's event callback has thrown
  observed,        \* per worker: what the observer has handled from it
  clicks,          \* user clicks so far
  session,         \* scan sessions begun so far (stamp of the current one)
  startOutcome,    \* what the last Start click came to
  click            \* the last click and the form values a Start click read

mainVars     == <<mainWindow, quitRequested, windows, pythonProcess, timers>>
workerVars   == <<worker, exitCode, stdin, stdout, stderr, emitted, ignored>>
queueVars    == <<invokeQueue, ipcQueue>>
sessionVars  == <<isScanning, btnStartDisabled, btnCancelDisabled>>
displayVars  == <<statusText, summaryHidden, summaryText, hasErrors,
                  progressWidth, progressCount, log, logStarted>>
rendererVars == <<sessionVars, displayVars, rendererFault, observed>>
userVars     == <<clicks, session, startOutcome, click>>
vars == <<mainVars, workerVars, queueVars, rendererVars, userVars>>

\* ------------------------------------------------------- message framing
JSONParseRaw(line) == [ok |-> TRUE, value |-> [raw |-> line]]

\* JSON.parse on the line alphabet: the parsed value, or a SyntaxError.
JSONParse(line) ==
  CASE line = LineStatus    -> [ok |-> TRUE, value |-> [event |-> "status", message |-> "Scanning"]]
    [] line = LineLog       -> [ok |-> TRUE, value |-> [event |-> "log", message |-> "Original (kept) a.png"]]
    [] line = LineProgress  -> [ok |-> TRUE, value |-> [event |-> "progress", current |-> 1, total |-> 2]]
    [] line = LineComplete  -> [ok |-> TRUE, value |-> [event |-> "complete", summary |-> "Done!", errors |-> 0]]
    [] line = LineCancelled -> [ok |-> TRUE, value |-> [event |-> "cancelled"]]
    [] line = LineError     -> [ok |-> TRUE, value |-> [event |-> "error", message |-> "bad file"]]
    [] line = LineNull      -> [ok |-> TRUE, value |-> [null |-> TRUE]]
    [] line = LineNumber    -> [ok |-> TRUE, value |-> [number |-> 42]]
    [] line = LineNoEvent   -> [ok |-> TRUE, value |-> [x |-> 1]]
    [] line = LineString    -> [ok |-> TRUE, value |-> [string |-> "hi"]]
    [] line = LineArray     -> [ok |-> TRUE, value |-> [array |-> <<1>>]]
    [] line = LineProgressOver -> [ok |-> TRUE, value |-> [event |-> "progress", current |-> 3, total |-> 2]]
    [] line = LineProgressZero -> [ok |-> TRUE, value |-> [event |-> "progress", current |-> 0, total |-> 0]]
    [] line = LineProgressNeg  -> [ok |-> TRUE, value |-> [event |-> "progress", current |-> -1, total |-> 2]]
    [] OTHER                -> [ok |-> FALSE, value |-> [syntaxError |-> TRUE]]

\* JSON.stringify(cmd) + "\n" for the three commands.
JSONstringify(cmd) ==
  CASE cmd.cmd = "scan" ->
         "{\"cmd\":\"scan\",\"source\":\"" \o cmd.source
           \o "\",\"output\":\"" \o cmd.output
           \o "\",\"threshold\":" \o ToString(cmd.threshold) \o "}\n"
    [] OTHER -> "{\"cmd\":\"" \o cmd.cmd \o "\"}\n"

\* String.prototype.trim on the chunk and path alphabets.
Trim(chunk) ==
  CASE chunk = "boom\n" -> "boom"
    [] chunk = "  \n"   -> ""
    [] chunk = "/a "    -> "/a"
    [] OTHER            -> chunk

\* ------------------------------------------------------ process supervisor
\* The main-process state the supervisor functions read and write.
Main == [pp |-> pythonProcess, wk |-> worker, xc |-> exitCode,
         si |-> stdin, tm |-> timers]

\* What spawn() can yield: a running process, or (executable not found) a
\* process that never ran; its handle is returned all the same, its stdin
\* reads as writable until the failure is reported on a later tick.
SpawnOutcomes == {"live", "exited"}

NextWorker(wk) ==
  IF \E w \in Workers : wk[w] = "unborn"
  THEN CHOOSE w \in Workers :
         wk[w] = "unborn" /\ \A v \in Workers : wk[v] = "unborn" => w <= v
  ELSE NoWorker

\* The model can follow a handler only while a fresh worker id is left.
CanSpawn(m) == m.pp # NoWorker \/ NextWorker(m.wk) # NoWorker

\* pythonProcess.stdin.writable
Writable(st) == st \in {"live", "exited"}

spawnPython(m, outcome) ==
  IF m.pp # NoWorker THEN m
  ELSE LET w == NextWorker(m.wk) IN
       [m EXCEPT !.pp = w, !.wk[w] = outcome,
                 !.xc[w] = IF outcome = "live" THEN <<>> ELSE <<-2>>]

sendToPython(m, cmd, sid, outcome) ==
  LET m1 == IF m.pp = NoWorker THEN spawnPython(m, outcome) ELSE m IN
  IF m1.pp # NoWorker /\ Writable(m1.wk[m1.pp])
  THEN [m1 EXCEPT !.si[m1.pp] =
          Append(@, [line |-> JSONstringify(cmd), session |-> sid])]
  ELSE m1

killPython(m) ==
  IF m.pp # NoWorker
  THEN [m EXCEPT !.si[m.pp] =
                   IF Writable(m.wk[m.pp])
                   THEN Append(@, [line |-> JSONstringify([cmd |-> "quit"]),
                                   session |-> 0])
                   ELSE @,
                 !.tm = Append(@, [for |-> m.pp])]
  ELSE m

SetMain(m) ==
  /\ pythonProcess' = m.pp
  /\ worker' = m.wk
  /\ exitCode' = m.xc
  /\ stdin' = m.si
  /\ timers' = m.tm

\* mainWindow && !mainWindow.isDestroyed()
WindowUsable == mainWindow = "open"

SendFirst(q, data, w, via, stamp) ==
  <<[data |-> data, from |-> w, via |-> via, stamp |-> stamp]>> \o q

\* mainWindow.webContents.send("backend-event", data)
Send(q, data, w, via, stamp) ==
  Append(q, [data |-> data, from |-> w, via |-> via, stamp |-> stamp])

\* ------------------------------------------------------------ the worker
WorkerPrint(w, line) ==
  /\ worker[w] = "live"
  /\ emitted < MaxEmit
  /\ emitted' = emitted + 1
  /\ stdout' = [stdout EXCEPT ![w] = Append(@, [text |-> line, stamp |-> emitted + 1])]
  /\ UNCHANGED <<mainVars, worker, exitCode, stdin, stderr, ignored, queueVars,
                 rendererVars, userVars>>

WorkerPrintErr(w, chunk) ==
  /\ worker[w] = "live"
  /\ emitted < MaxEmit
  /\ emitted' = emitted + 1
  /\ stderr' = [stderr EXCEPT ![w] = Append(@, [text |-> chunk, stamp |-> emitted + 1])]
  /\ UNCHANGED <<mainVars, worker, exitCode, stdin, stdout, ignored, queueVars,
                 rendererVars, userVars>>

WorkerExit(w, code) ==
  /\ worker[w] = "live"
  /\ worker' = [worker EXCEPT ![w] = "exited"]
  /\ exitCode' = [exitCode EXCEPT ![w] = <<code>>]
  /\ UNCHANGED <<mainVars, stdin, stdout, stderr, emitted, ignored, queueVars,
                 rendererVars, userVars>>

\* The input pipe of a dead process is found closed.
StdinClosed(w) ==
  /\ worker[w] = "exited"
  /\ worker' = [worker EXCEPT ![w] = "broken"]
  /\ UNCHANGED <<mainVars, exitCode, stdin, stdout, stderr, emitted, ignored, queueVars,
                 rendererVars, userVars>>

\* ------------------------------------------- callbacks of the main process
Attached(w) == worker[w] \in {"live", "exited", "broken"}

OnLine(w) ==
  /\ Attached(w)
  /\ stdout[w] # <<>>
  /\ LET l == Head(stdout[w])
         p == JSONParse(l.text)
     IN IF p.ok /\ WindowUsable
        THEN /\ Len(ipcQueue) < MaxQueue
             /\ ipcQueue' = Send(ipcQueue, p.value, w, "stdout", l.stamp)
        ELSE ipcQueue' = ipcQueue
  /\ ignored' = IF JSONParse(Head(stdout[w]).text).ok THEN ignored
                ELSE [ignored EXCEPT ![w] = Head(stdout[w]).stamp]
  /\ stdout' = [stdout EXCEPT ![w] = Tail(@)]
  /\ UNCHANGED <<mainVars, worker, exitCode, stdin, stderr, emitted,
                 invokeQueue, rendererVars, userVars>>

OnStderrData(w) ==
  /\ Attached(w)
  /\ stderr[w] # <<>>
  /\ LET c == Head(stderr[w])
         errMsg == Trim(c.text)
     IN IF errMsg # "" /\ WindowUsable
        THEN /\ Len(ipcQueue) < MaxQueue
             /\ ipcQueue' = Send(ipcQueue, [event |-> "error", message |-> errMsg],
                                 w, "stderr", c.stamp)
        ELSE ipcQueue' = ipcQueue
  /\ stderr' = [stderr EXCEPT ![w] = Tail(@)]
  /\ UNCHANGED <<mainVars, worker, exitCode, stdin, stdout, emitted, ignored,
                 invokeQueue, rendererVars, userVars>>

CloseReadyOnExit(w) == worker[w] \in {"exited", "broken"}

\* 'close' is emitted once the process has ended and its streams are drained.
CloseReady(w) ==
  /\ worker[w] \in {"exited", "broken"}
  /\ stdout[w] = <<>>
  /\ stderr[w] = <<>>

AfterCloseKept(pp, w) == pp

\* pythonProcess = null in the close callback of worker w.
AfterClose(pp, w) == NoWorker

OnClose(w) ==
  /\ CloseReady(w)
  /\ pythonProcess' = AfterClose(pythonProcess, w)
  /\ worker' = [worker EXCEPT ![w] = "closed"]
  /\ IF WindowUsable
     THEN /\ Len(ipcQueue) < MaxQueue
          /\ ipcQueue' = Send(ipcQueue,
                              [event |-> "process-exit", code |-> exitCode[w]],
                              w, "close", 0)
     ELSE ipcQueue' = ipcQueue
  /\ UNCHANGED <<mainWindow, quitRequested, windows, timers, exitCode, stdin,
                 stdout, stderr, emitted, ignored, invokeQueue, rendererVars, userVars>>

\* The callback of killPython's setTimeout.
GraceTimerFire ==
  /\ timers # <<>>
  /\ timers' = Tail(timers)
  /\ IF pythonProcess # NoWorker
     THEN /\ worker' = [worker EXCEPT ![pythonProcess] =
                          IF @ = "live" THEN "exited" ELSE @]
          /\ pythonProcess' = NoWorker
     ELSE UNCHANGED <<worker, pythonProcess>>
  /\ UNCHANGED <<mainWindow, quitRequested, windows, exitCode, stdin, stdout,
                 stderr, emitted, ignored, queueVars, rendererVars, userVars>>

\* -------------------------------------------------------------- renderer
\* The Cancel button's disabled attribute in renderer/index.html.
InitialCancelDisabled == TRUE

\* The renderer's variables and the properties of the page it writes.
Renderer ==
  [isScanning |-> isScanning, btnStartDisabled |-> btnStartDisabled,
   btnCancelDisabled |-> btnCancelDisabled, statusText |-> statusText,
   summaryHidden |-> summaryHidden, summaryText |-> summaryText,
   hasErrors |-> hasErrors, progressWidth |-> progressWidth,
   progressCount |-> progressCount, log |-> log, logStarted |-> logStarted,
   rendererFault |-> rendererFault]

SetRenderer(r) ==
  /\ isScanning' = r.isScanning
  /\ btnStartDisabled' = r.btnStartDisabled
  /\ btnCancelDisabled' = r.btnCancelDisabled
  /\ statusText' = r.statusText
  /\ summaryHidden' = r.summaryHidden
  /\ summaryText' = r.summaryText
  /\ hasErrors' = r.hasErrors
  /\ progressWidth' = r.progressWidth
  /\ progressCount' = r.progressCount
  /\ log' = r.log
  /\ logStarted' = r.logStarted
  /\ rendererFault' = r.rendererFault

\* A freshly loaded page (renderer/index.html with renderer.js).
LoadedRenderer ==
  [isScanning |-> FALSE, btnStartDisabled |-> FALSE,
   btnCancelDisabled |-> InitialCancelDisabled, statusText |-> "",
   summaryHidden |-> TRUE, summaryText |-> "", hasErrors |-> FALSE,
   progressWidth |-> <<0, 1>>, progressCount |-> "", log |-> <<>>,
   logStarted |-> FALSE, rendererFault |-> FALSE]

setScanningKeepsStart(r, v) ==
  [r EXCEPT !.isScanning = v, !.btnCancelDisabled = ~v]

setScanning(r, v) ==
  [r EXCEPT !.isScanning = v, !.btnStartDisabled = v, !.btnCancelDisabled = ~v]

\* The bar's width in percent is kept as the fraction <<numerator, denominator>>.
setProgress(r, cur, total) ==
  [r EXCEPT !.progressWidth = IF total > 0 THEN <<cur * 100, total>> ELSE <<0, 1>>,
            !.progressCount = IF total > 0
                              THEN ToString(cur) \o " / " \o ToString(total)
                              ELSE ""]

\* addLog's auto-classification (msg.includes) on the message alphabet.
Classify(msg) ==
  CASE msg = "Original (kept) a.png" -> "accent"
    [] msg = "Done!"                 -> "success"
    [] OTHER                         -> ""

LastOf(s, n) == IF Len(s) <= n THEN s ELSE SubSeq(s, Len(s) - n + 1, Len(s))

\* The log keeps its last MaxLog lines in view.
addLog(r, msg, type) ==
  [r EXCEPT !.log = LastOf(Append(IF r.logStarted THEN @ ELSE <<>>,
                                  [msg |-> msg,
                                   type |-> IF type # "" THEN type ELSE Classify(msg)]),
                           MaxLog),
            !.logStarted = TRUE]

clearLog(r) == [r EXCEPT !.log = <<>>, !.logStarted = FALSE]

ExitedMessage == "Backend process exited unexpectedly."

\* The cases of the switch in the onBackendEvent callback.
onComplete(r, data) ==
  [setScanning(r, FALSE) EXCEPT !.summaryHidden = FALSE,
                                !.hasErrors = (data.errors > 0),
                                !.summaryText = data.summary]

onCancelled(r) == setScanning(r, FALSE)

onProcessExitIgnored(r) == r

onProcessExit(r) ==
  IF r.isScanning
  THEN [addLog(setScanning(r, FALSE), ExitedMessage, "error") EXCEPT !.statusText = "Error"]
  ELSE r

onErrorEndsSession(r, data) == setScanning(addLog(r, data.message, "error"), FALSE)

onError(r, data) == addLog(r, data.message, "error")

\* The callback given to window.api.onBackendEvent.
onBackendEvent(r, data) ==
  IF "null" \in DOMAIN data THEN [r EXCEPT !.rendererFault = TRUE]
  ELSE IF "event" \notin DOMAIN data THEN r
  ELSE CASE data.event = "status"       -> [r EXCEPT !.statusText = data.message]
         [] data.event = "log"          -> addLog(r, data.message, "")
         [] data.event = "progress"     -> setProgress(r, data.current, data.total)
         [] data.event = "complete"     -> onComplete(r, data)
         [] data.event = "cancelled"    -> onCancelled(r)
         [] data.event = "error"        -> onError(r, data)
         [] data.event = "process-exit" -> onProcessExit(r)
         [] OTHER                       -> r

\* The rest of btnCancel.onclick, after its await.
afterCancelScan(r) == [r EXCEPT !.statusText = "Cancelling..."]

IsReply(msg) == "reply" \in DOMAIN msg

Invoke(q, channel, args, sid) ==
  Append(q, [channel |-> channel, args |-> args, session |-> sid])

validateNonEmpty(source, output) ==
  IF source = "" \/ output = "" THEN "shake" ELSE "accepted"

\* The checks at the head of btnStart.onclick, on the trimmed field values.
validate(source, output) ==
  IF source = "" \/ output = "" THEN "shake"
  ELSE IF source = output THEN "same"
  ELSE "accepted"

\* btnStart.onclick with the fields holding src, out and thr; a click on a
\* disabled button is not dispatched.
ClickStart(src, out, thr) ==
  /\ mainWindow = "open"
  /\ clicks' = clicks + 1
  /\ click' = [kind |-> "start", source |-> src, output |-> out, threshold |-> thr]
  /\ LET source == Trim(src)
         output == Trim(out)
     IN IF btnStartDisabled
        THEN /\ startOutcome' = "rejected"
             /\ UNCHANGED <<session, invokeQueue, sessionVars, displayVars>>
        ELSE IF validate(source, output) = "shake"
        THEN /\ startOutcome' = "shake"
             /\ UNCHANGED <<session, invokeQueue, sessionVars, displayVars>>
        ELSE IF validate(source, output) = "same"
        THEN /\ startOutcome' = "same"
             /\ SetRenderer(addLog(Renderer,
                                   "Source and output folders cannot be the same.", "error"))
             /\ UNCHANGED <<session, invokeQueue>>
        ELSE /\ Len(invokeQueue) < MaxQueue
             /\ startOutcome' = "accepted"
             /\ session' = IF isScanning THEN session ELSE session + 1
             /\ SetRenderer(setProgress(
                  [clearLog(setScanning(Renderer, TRUE)) EXCEPT !.summaryHidden = TRUE],
                  0, 0))
             /\ invokeQueue' = Invoke(invokeQueue, "start-scan",
                                      [source |-> source, output |-> output,
                                       threshold |-> thr],
                                      session')
  /\ UNCHANGED <<mainVars, workerVars, ipcQueue, rendererFault, observed>>

\* btnCancel.onclick up to its await.
ClickCancel ==
  /\ mainWindow = "open"
  /\ clicks' = clicks + 1
  /\ click' = [click EXCEPT !.kind = "cancel"]
  /\ IF btnCancelDisabled
     THEN invokeQueue' = invokeQueue
     ELSE /\ Len(invokeQueue) < MaxQueue
          /\ invokeQueue' = Invoke(invokeQueue, "cancel-scan", <<>>, 0)
  /\ UNCHANGED <<mainVars, workerVars, ipcQueue, rendererVars, session, startOutcome>>

\* What handling one message adds to the observer's record of its worker.
Observe(msg) ==
  IF IsReply(msg) THEN observed
  ELSE [observed EXCEPT ![msg.from] =
          IF msg.via = "close" THEN [@ EXCEPT !.exits = @ + 1]
          ELSE IF msg.via = "stdout" THEN [@ EXCEPT !.out = msg.stamp, !.n = @ + 1]
          ELSE @]

\* The renderer takes the next message: a "backend-event" for its callback,
\* or the reply that resumes an awaited invoke.
OnBackendEvent ==
  /\ mainWindow = "open"
  /\ ipcQueue # <<>>
  /\ ipcQueue' = Tail(ipcQueue)
  /\ observed' = Observe(Head(ipcQueue))
  /\ LET msg == Head(ipcQueue)
     IN IF IsReply(msg)
        THEN SetRenderer(IF msg.reply = "cancel-scan"
                         THEN afterCancelScan(Renderer) ELSE Renderer)
        ELSE SetRenderer(onBackendEvent(Renderer, msg.data))
  /\ UNCHANGED <<mainVars, workerVars, invokeQueue, userVars>>

\* ---------------------------------------------- IPC handlers of the main process
Reply(q, channel, result, written) ==
  Append(q, [reply |-> channel, result |-> result, written |-> written])

\* ipcMain.handle("start-scan")
HandleStartScan(outcome) ==
  /\ invokeQueue # <<>>
  /\ Head(invokeQueue).channel = "start-scan"
  /\ CanSpawn(Main)
  /\ Len(ipcQueue) < MaxQueue
  /\ LET req == Head(invokeQueue)
         cmd == [cmd |-> "scan", source |-> req.args.source,
                 output |-> req.args.output, threshold |-> req.args.threshold]
         m == sendToPython(spawnPython(Main, outcome), cmd, req.session, outcome)
     IN /\ SetMain(m)
        /\ ipcQueue' = Reply(ipcQueue, "start-scan", TRUE, m.si # stdin)
  /\ invokeQueue' = Tail(invokeQueue)
  /\ UNCHANGED <<mainWindow, quitRequested, windows, stdout, stderr, emitted, ignored,
                 rendererVars, userVars>>

\* ipcMain.handle("cancel-scan")
HandleCancelScan(outcome) ==
  /\ invokeQueue # <<>>
  /\ Head(invokeQueue).channel = "cancel-scan"
  /\ CanSpawn(Main)
  /\ Len(ipcQueue) < MaxQueue
  /\ LET m == sendToPython(Main, [cmd |-> "cancel"], 0, outcome)
     IN /\ SetMain(m)
        /\ ipcQueue' = Reply(ipcQueue, "cancel-scan", TRUE, m.si # stdin)
  /\ invokeQueue' = Tail(invokeQueue)
  /\ UNCHANGED <<mainWindow, quitRequested, windows, stdout, stderr, emitted, ignored,
                 rendererVars, userVars>>

\* ------------------------------------------------------------------ windows
\* mainWindow.on("closed") and then app.on("window-all-closed"): the window
\* was the only one, so both handlers run when it is gone.  The renderer and
\* the messages in flight to and from it go with the window.
WindowClosed ==
  /\ mainWindow = "open"
  /\ mainWindow' = "null"
  /\ SetMain(killPython(killPython(Main)))
  /\ quitRequested' = TRUE
  /\ invokeQueue' = <<>>
  /\ ipcQueue' = <<>>
  /\ SetRenderer(LoadedRenderer)
  /\ UNCHANGED <<windows, stdout, stderr, emitted, ignored, observed, userVars>>

\* app.on("activate") with no window left: createWindow().
Activate ==
  /\ mainWindow = "null"
  /\ windows < MaxWindows
  /\ windows' = windows + 1
  /\ mainWindow' = "open"
  /\ UNCHANGED <<quitRequested, pythonProcess, timers, workerVars, queueVars,
                 rendererVars, userVars>>

\* ------------------------------------------------------------ specification
Init ==
  /\ mainWindow = "open"
  /\ quitRequested = FALSE
  /\ windows = 1
  /\ pythonProcess = NoWorker
  /\ worker = [w \in Workers |-> "unborn"]
  /\ exitCode = [w \in Workers |-> <<>>]
  /\ stdin = [w \in Workers |-> <<>>]
  /\ stdout = [w \in Workers |-> <<>>]
  /\ stderr = [w \in Workers |-> <<>>]
  /\ emitted = 0
  /\ ignored = [w \in Workers |-> 0]
  /\ timers = <<>>
  /\ invokeQueue = <<>>
  /\ ipcQueue = <<>>
  /\ isScanning = FALSE
  /\ btnStartDisabled = FALSE
  /\ btnCancelDisabled = InitialCancelDisabled
  /\ statusText = ""
  /\ summaryHidden = TRUE
  /\ summaryText = ""
  /\ hasErrors = FALSE
  /\ progressWidth = <<0, 1>>
  /\ progressCount = ""
  /\ log = <<>>
  /\ logStarted = FALSE
  /\ rendererFault = FALSE
  /\ observed = [w \in Workers |-> [out |-> 0, n |-> 0, exits |-> 0]]
  /\ clicks = 0
  /\ session = 0
  /\ startOutcome = "none"
  /\ click = [kind |-> "none", source |-> "", output |-> "", threshold |-> 15]

\* The supervisor with its windows, timers and processes; workers stay silent.
NextSupervisor ==
  \/ \E w \in Workers : WorkerExit(w, 0)
  \/ \E w \in Workers : StdinClosed(w)
  \/ \E w \in Workers : OnClose(w)
  \/ GraceTimerFire
  \/ clicks < SupervisorClicks /\ ClickStart("/a", "/b", 15)
  \/ clicks < SupervisorClicks /\ ClickCancel
  \/ OnBackendEvent
  \/ \E outcome \in SpawnOutcomes : HandleStartScan(outcome)
  \/ \E outcome \in SpawnOutcomes : HandleCancelScan(outcome)
  \/ WindowClosed
  \/ Activate

SpecSupervisor == Init /\ [][NextSupervisor]_vars

\* One window: the scan session driven by the user and by the worker's events.
NextSession ==
  \/ \E w \in Workers, line \in CoreLines : WorkerPrint(w, line)
  \/ \E w \in Workers, code \in ExitCodes : WorkerExit(w, code)
  \/ \E w \in Workers : StdinClosed(w)
  \/ \E w \in Workers : OnLine(w)
  \/ \E w \in Workers : OnClose(w)
  \/ clicks < SessionClicks /\ ClickStart("/a", "/b", 15)
  \/ clicks < SessionClicks /\ ClickCancel
  \/ OnBackendEvent
  \/ \E outcome \in SpawnOutcomes : HandleStartScan(outcome)
  \/ \E outcome \in SpawnOutcomes : HandleCancelScan(outcome)
  \/ WindowClosed
  \/ GraceTimerFire

SpecSession == Init /\ [][NextSession]_vars

\* The worker channel: output lines and chunks of every kind, exit and close.
NextChannel ==
  \/ \E w \in Workers, line \in AllLines : WorkerPrint(w, line)
  \/ \E w \in Workers, chunk \in Chunks : WorkerPrintErr(w, chunk)
  \/ \E w \in Workers : WorkerExit(w, 1)
  \/ \E w \in Workers : OnLine(w)
  \/ \E w \in Workers : OnStderrData(w)
  \/ \E w \in Workers : OnClose(w)
  \/ clicks < ChannelClicks /\ ClickStart("/a", "/b", 15)
  \/ OnBackendEvent
  \/ HandleStartScan("live")
  \/ WindowClosed

SpecChannel == Init /\ [][NextChannel]_vars

\* One scan session fed every kind of event a worker can report.
NextEvents ==
  \/ \E w \in Workers, line \in EventLines : WorkerPrint(w, line)
  \/ \E w \in Workers, chunk \in Chunks : WorkerPrintErr(w, chunk)
  \/ \E w \in Workers : WorkerExit(w, 1)
  \/ \E w \in Workers : OnLine(w)
  \/ \E w \in Workers : OnStderrData(w)
  \/ \E w \in Workers : OnClose(w)
  \/ clicks < EventsClicks /\ ClickStart("/a", "/b", 15)
  \/ OnBackendEvent
  \/ HandleStartScan("live")

SpecEvents == Init /\ [][NextEvents]_vars

\* The Start form with every pair of field values, in every worker state.
NextFacade ==
  \/ \E w \in Workers : WorkerExit(w, 0)
  \/ \E w \in Workers : OnClose(w)
  \/ GraceTimerFire
  \/ clicks < FacadeClicks /\ \E src \in Paths, out \in Paths, thr \in Thresholds :
                                ClickStart(src, out, thr)
  \/ OnBackendEvent
  \/ HandleStartScan("live")
  \/ WindowClosed
  \/ Activate

SpecFacade == Init /\ [][NextFacade]_vars

\* ------------------------------------------------------------------ claims
\* Steps recognised by what they do to the queues.
HandlesEvent(kinds) ==
  /\ mainWindow = "open" /\ mainWindow' = "open"
  /\ ipcQueue # <<>> /\ ipcQueue' = Tail(ipcQueue)
  /\ ~IsReply(Head(ipcQueue))
  /\ "event" \in DOMAIN Head(ipcQueue).data
  /\ Head(ipcQueue).data.event \in kinds

HandlerStep ==
  /\ invokeQueue # <<>> /\ invokeQueue' = Tail(invokeQueue)
  /\ mainWindow' = "open"

CloseStep(w) == worker[w] \in {"exited", "broken"} /\ worker'[w] = "closed"

TimerStep == timers # <<>> /\ timers' = Tail(timers)

Written == UNION {{<<w, i>> : i \in 1..Len(stdin[w])} : w \in Workers}

\* Scan commands written for session sid.
ScanLinesOf(sid) == Cardinality({x \in Written : stdin[x[1]][x[2]].session = sid})

\* start-scan requests of session sid still on their way to the main process.
ScanRequestsOf(sid) ==
  Cardinality({i \in 1..Len(invokeQueue) :
                 /\ invokeQueue[i].channel = "start-scan"
                 /\ invokeQueue[i].session = sid})

LiveCount == Cardinality({w \in Workers : worker[w] = "live"})

TerminalEvents == {"complete", "cancelled", "process-exit"}

\* C1: while a session is running the Start button is disabled, so a further
\* startScan is rejected; no session ever has more than one scan command
\* requested or written to a worker.
C1_NoDoubleStart ==
  /\ isScanning => btnStartDisabled
  /\ \A sid \in 1..session : ScanRequestsOf(sid) + ScanLinesOf(sid) <= 1

\* C1 witness: a Start click was rejected during a session whose one scan
\* command has been written.
C1_Witness ==
  /\ startOutcome = "rejected"
  /\ isScanning
  /\ ScanLinesOf(session) = 1

\* C2: the first terminal event handled ends the session; a terminal-shaped
\* event handled when the session has already ended changes nothing the
\* observer can see of the session.
C2_TerminalExclusive ==
  [][(HandlesEvent(TerminalEvents) /\ session > 0) =>
       IF isScanning THEN ~isScanning'
       ELSE UNCHANGED <<sessionVars, displayVars>>]_vars

\* C3: at most one worker is live at any time, and nothing is spawned
\* while a worker is live.
C3_AtMostOneLive ==
  [][/\ LiveCount' <= 1
     /\ LiveCount >= 1 =>
          \A w \in Workers : worker[w] = "unborn" => worker'[w] = "unborn"]_vars

\* C4: when a grace timer fires and the worker it was started for is still
\* live, that worker is terminated and the live-worker reference is cleared.
C4_ForcedShutdown ==
  [][(TimerStep /\ worker[Head(timers).for] = "live") =>
       /\ worker'[Head(timers).for] # "live"
       /\ pythonProcess' = NoWorker]_vars

\* C5: the close of a worker is reported to the window as a process-exit
\* event; handled in a running session it ends the session with the
\* synthesized failure (status "Error", the exit message in the log) and
\* leaves Start enabled, while a worker-reported error leaves the session
\* as it is.
C5_AbnormalExit ==
  [][/\ \A w \in Workers :
          (CloseStep(w) /\ WindowUsable) =>
            /\ Len(ipcQueue') = Len(ipcQueue) + 1
            /\ ipcQueue'[Len(ipcQueue')].data.event = "process-exit"
     /\ (HandlesEvent({"process-exit"}) /\ isScanning) =>
          /\ ~isScanning'
          /\ ~btnStartDisabled'
          /\ statusText' = "Error"
          /\ log' # <<>>
          /\ log'[Len(log')] = [msg |-> ExitedMessage, type |-> "error"]
     /\ HandlesEvent({"error"}) =>
          /\ UNCHANGED sessionVars
          /\ statusText' = statusText]_vars

\* C5 witness: after an unexpected exit was reported, a new scan was accepted.
C5_Witness ==
  /\ statusText = "Error"
  /\ \E w \in Workers : observed[w].exits = 1
  /\ session >= 2
  /\ isScanning
  /\ startOutcome = "accepted"

\* A worker that ran and has ended (a failed spawn is left aside).
Terminated(w) ==
  /\ worker[w] \in {"exited", "broken", "closed"}
  /\ exitCode[w] # <<-2>>

\* C6 as stated: a command is only ever written to a worker that has not
\* terminated before the write.
C6_NoWriteToTerminated ==
  [][\A w \in Workers : stdin'[w] # stdin[w] => ~Terminated(w)]_vars

\* C6 amended: the reference never denotes a worker whose close callback has
\* run; the close callback clears it; a send that finds it empty spawns a
\* new worker and writes the command to that worker; nothing is written to
\* a worker whose close callback has run.
C6_NoWriteAfterClose ==
  /\ [](pythonProcess # NoWorker => worker[pythonProcess] \notin {"unborn", "closed"})
  /\ [][/\ \A w \in Workers : stdin'[w] # stdin[w] => worker[w] # "closed"
        /\ \A w \in Workers : CloseStep(w) => pythonProcess' = NoWorker
        /\ (HandlerStep /\ pythonProcess = NoWorker) =>
             /\ pythonProcess' # NoWorker
             /\ worker[pythonProcess'] = "unborn"
             /\ Len(stdin'[pythonProcess']) = 1]_vars

\* C6 witness: a worker's close callback has run and a later worker has been
\* spawned and written to.
C6_Witness ==
  \E w, v \in Workers :
    /\ worker[w] = "closed"
    /\ w < v
    /\ pythonProcess = v
    /\ stdin[v] # <<>>

\* The lines of the alphabet that are JSON texts.
JSONLines == AllLines \ {LineGarbage}

ReadStep(w) == Len(stdout'[w]) < Len(stdout[w])

\* C7: reading a stdout line that is not JSON forwards nothing, disturbs
\* neither the supervisor nor the renderer, and consumes that line only; the
\* JSON lines read afterwards are forwarded while the window exists.
C7_NonJsonDropped ==
  [][\A w \in Workers :
       ReadStep(w) =>
         /\ stdout'[w] = Tail(stdout[w])
         /\ IF Head(stdout[w]).text \in JSONLines /\ WindowUsable
            THEN /\ Len(ipcQueue') = Len(ipcQueue) + 1
                 /\ ipcQueue'[Len(ipcQueue')].from = w
                 /\ ipcQueue'[Len(ipcQueue')].stamp = Head(stdout[w]).stamp
            ELSE ipcQueue' = ipcQueue
         /\ UNCHANGED <<mainVars, worker, rendererVars>>]_vars

\* C7 witness: a worker's non-JSON line was dropped and a later line of the
\* same worker reached the observer.
C7_Witness == \E w \in Workers : 0 < ignored[w] /\ ignored[w] < observed[w].out

IsExitOf(m, w) == ~IsReply(m) /\ m.from = w /\ m.via = "close"

IsOutputOf(m, w) == ~IsReply(m) /\ m.from = w /\ m.via # "close"

\* process-exit events of worker w handled by the observer or on their way.
ExitEvents(w) ==
  observed[w].exits + Cardinality({i \in 1..Len(ipcQueue) : IsExitOf(ipcQueue[i], w)})

\* Nothing of worker w is left to be delivered behind its process-exit.
NoEventAfterExit(w) ==
  /\ worker[w] = "closed" => stdout[w] = <<>> /\ stderr[w] = <<>>
  /\ \A i \in 1..Len(ipcQueue) :
       IsOutputOf(ipcQueue[i], w) =>
         /\ observed[w].exits = 0
         /\ \A j \in 1..(i - 1) : ~IsExitOf(ipcQueue[j], w)

\* C8 as stated: every terminated (closed) worker has exactly one
\* process-exit event delivered or on its way, and none of its events comes
\* after it.
C8_ExactlyOneExit ==
  \A w \in Workers :
    /\ worker[w] = "closed" => ExitEvents(w) = 1
    /\ NoEventAfterExit(w)

\* C8 amended: a worker's close callback sends exactly one process-exit
\* event when the window exists and none when it does not; no worker ever
\* has more than one, none before its close, and none of its events comes
\* after it.
C8_ExitOnceAndLast ==
  /\ [](\A w \in Workers :
          /\ ExitEvents(w) <= 1
          /\ worker[w] # "closed" => ExitEvents(w) = 0
          /\ NoEventAfterExit(w))
  /\ [][\A w \in Workers :
          CloseStep(w) =>
            IF WindowUsable
            THEN ipcQueue' = Append(ipcQueue,
                   [data |-> [event |-> "process-exit", code |-> exitCode[w]],
                    from |-> w, via |-> "close", stamp |-> 0])
            ELSE ipcQueue' = ipcQueue]_vars

\* C8 witness: the observer handled events of a worker and then its one
\* process-exit.
C8_Witness == \E w \in Workers : observed[w].exits = 1 /\ observed[w].n >= 1

Increasing(s) == \A i \in 1..(Len(s) - 1) : s[i] < s[i + 1]

StampsOf(q) == [i \in 1..Len(q) |-> q[i].stamp]

\* The emission stamps of worker w's stdout events: the last one handled,
\* those on their way to the observer, those not yet read.
Pipeline(w) ==
  <<observed[w].out>>
    \o StampsOf(SelectSeq(ipcQueue, LAMBDA m : ~IsReply(m) /\ m.from = w /\ m.via = "stdout"))
    \o StampsOf(stdout[w])

\* C9: the events of one worker's stdout reach the observer in the order of
\* emission, none twice.
C9_InOrder == \A w \in Workers : Increasing(Pipeline(w))

\* C9 witness: the observer handled two stdout events of one worker.
C9_Witness == \E w \in Workers : observed[w].n >= 2

\* C10: a send that wrote nothing is never answered to the caller as a
\* success.
C10_FailureReported ==
  \A i \in 1..Len(ipcQueue) :
    (IsReply(ipcQueue[i]) /\ ipcQueue[i].result = TRUE) => ipcQueue[i].written

\* A click on Start, whatever it comes to.
StartClick == clicks' = clicks + 1 /\ click'.kind = "start"

\* The scan command lines whose source and output are the same path.
SamePathLines ==
  {JSONstringify([cmd |-> "scan", source |-> p, output |-> p, threshold |-> t]) :
     p \in Paths, t \in Thresholds}

\* C11: a Start click whose source and output fields hold the same path
\* sends no request, writes no command, spawns nothing and leaves the
\* session as it is (Idle stays Idle), whatever the worker's state; no
\* request and no command with equal paths ever exists.
C11_SamePathRejected ==
  /\ [](/\ \A i \in 1..Len(invokeQueue) :
             invokeQueue[i].channel = "start-scan" =>
               invokeQueue[i].args.source # invokeQueue[i].args.output
        /\ \A x \in Written : stdin[x[1]][x[2]].line \notin SamePathLines)
  /\ [][(StartClick /\ Trim(click'.source) = Trim(click'.output)) =>
          /\ startOutcome' \in {"rejected", "shake", "same"}
          /\ UNCHANGED <<invokeQueue, mainVars, workerVars, sessionVars>>]_vars

\* C11 witness: with a worker live and its shutdown under way (quit written,
\* grace timer pending), a Start click whose two fields name the same folder
\* was turned down in an idle session.
C11_Witness ==
  /\ click.kind = "start"
  /\ click.source # click.output
  /\ startOutcome = "same"
  /\ ~isScanning
  /\ pythonProcess # NoWorker
  /\ worker[pythonProcess] = "live"
  /\ timers # <<>>

\* The requests a Start click can make.
Requests ==
  [source : {Trim(p) : p \in Paths}, output : {Trim(p) : p \in Paths},
   threshold : Thresholds]

\* The requests a command line stands for.
DecodeScan(line) ==
  {a \in Requests :
     JSONstringify([cmd |-> "scan", source |-> a.source, output |-> a.output,
                    threshold |-> a.threshold]) = line}

\* Worker w's input has grown by exactly one line.
OneMoreLine(w) ==
  /\ Len(stdin'[w]) = Len(stdin[w]) + 1
  /\ SubSeq(stdin'[w], 1, Len(stdin[w])) = stdin[w]

\* C12: a Start click in an idle session with a valid request is accepted and
\* makes the session Running with that request on its way; the request's
\* handler writes exactly one scan command with the request's source, output
\* and threshold to the worker the reference then denotes, a fresh one if the
\* reference was empty, and nothing to any other worker.
C12_StartWritesScan ==
  /\ [][(/\ StartClick
         /\ ~isScanning
         /\ validate(Trim(click'.source), Trim(click'.output)) = "accepted") =>
          /\ isScanning'
          /\ startOutcome' = "accepted"
          /\ Len(invokeQueue') = Len(invokeQueue) + 1
          /\ invokeQueue'[Len(invokeQueue')].channel = "start-scan"
          /\ invokeQueue'[Len(invokeQueue')].args =
               [source |-> Trim(click'.source), output |-> Trim(click'.output),
                threshold |-> click'.threshold]]_vars
  /\ [][(HandlerStep /\ Head(invokeQueue).channel = "start-scan") =>
          /\ pythonProcess' # NoWorker
          /\ pythonProcess = NoWorker => worker[pythonProcess'] = "unborn"
          /\ OneMoreLine(pythonProcess')
          /\ DecodeScan(stdin'[pythonProcess'][Len(stdin'[pythonProcess'])].line)
               = {Head(invokeQueue).args}
          /\ \A w \in Workers \ {pythonProcess'} : stdin'[w] = stdin[w]]_vars

\* A click on Cancel, whatever it comes to.
CancelClick == clicks' = clicks + 1 /\ click'.kind = "cancel"

CancelHandlerStep == HandlerStep /\ Head(invokeQueue).channel = "cancel-scan"

\* The renderer resumes btnCancel.onclick after its await.
CancelResumed ==
  /\ mainWindow = "open" /\ mainWindow' = "open"
  /\ ipcQueue # <<>> /\ ipcQueue' = Tail(ipcQueue)
  /\ IsReply(Head(ipcQueue))
  /\ Head(ipcQueue).reply = "cancel-scan"

CancelLine == JSONstringify([cmd |-> "cancel"])

\* The last command written to the referenced worker is a cancel.
CancelPending ==
  /\ pythonProcess # NoWorker
  /\ stdin[pythonProcess] # <<>>
  /\ stdin[pythonProcess][Len(stdin[pythonProcess])].line = CancelLine

\* C13: a cancel that finds the session not Running does nothing, at the
\* click, in the handler and on resuming: no request, no command, no worker
\* spawned, no timer, nothing changed in the session or its display; a cancel
\* repeated on a worker already told to cancel leaves the session and the
\* worker processes as they are.
C13_CancelOnlyWhileRunning ==
  [][/\ (CancelClick /\ ~isScanning) =>
          UNCHANGED <<invokeQueue, mainVars, workerVars, rendererVars>>
     /\ (CancelHandlerStep /\ ~isScanning) =>
          UNCHANGED <<stdin, worker, pythonProcess, timers>>
     /\ (CancelResumed /\ ~isScanning) =>
          UNCHANGED <<sessionVars, displayVars>>
     /\ (CancelHandlerStep /\ CancelPending) =>
          UNCHANGED <<worker, pythonProcess, sessionVars>>]_vars

\* C14: handling progress{current, total} with total > 0 sets the bar to a
\* width within 0% .. 100%, equal to current/total when 0 <= current <= total;
\* with total = 0 nothing is divided and the display shows no count and an
\* empty bar.
C14_ProgressBounds ==
  [][HandlesEvent({"progress"}) =>
       LET d == Head(ipcQueue).data
           num == progressWidth'[1]
           den == progressWidth'[2]
       IN IF d.total > 0
          THEN /\ den > 0
               /\ 0 <= num /\ num <= 100 * den
               /\ (0 <= d.current /\ d.current <= d.total) =>
                    num * d.total = d.current * 100 * den
          ELSE /\ progressWidth' = <<0, 1>>
               /\ progressCount' = ""]_vars

\* C15: handling a status, log, progress or error event, read from stdout or
\* made from stderr, leaves the session as it is; a running session ends only
\* by handling complete, cancelled or process-exit.
C15_SessionUnchanged ==
  [][/\ HandlesEvent({"status", "log", "progress", "error"}) => UNCHANGED sessionVars
     /\ (isScanning /\ ~isScanning') => HandlesEvent(TerminalEvents)]_vars

\* C15 witness: a running session has shown a progress event and logged an
\* error made from stderr, and is still running.
C15_Witness ==
  /\ isScanning
  /\ progressCount = "1 / 2"
  /\ \E i \in 1..Len(log) : log[i] = [msg |-> "boom", type |-> "error"]

\* The JSON texts of the alphabet that are not records with an event field.
NonRecordLines == {LineNull, LineNumber, LineString, LineArray, LineNoEvent}

\* The observer's event callback never throws.
NoRendererFault == ~rendererFault

\* C16: reading a stdout line that is JSON but not a record with an event
\* field forwards nothing to the window, and the observer's event callback
\* never throws.
C16_NonRecordDropped ==
  /\ []NoRendererFault
  /\ [][\A w \in Workers :
          (ReadStep(w) /\ Head(stdout[w]).text \in NonRecordLines) =>
            ipcQueue' = ipcQueue]_vars

\* The window goes: its closed handler and then window-all-closed each call
\* killPython().
TwoShutdowns == mainWindow = "open" /\ mainWindow' = "null"

\* The supervisor's state after the step is m.
MainBecomes(m) ==
  /\ pythonProcess' = m.pp
  /\ worker' = m.wk
  /\ exitCode' = m.xc
  /\ stdin' = m.si
  /\ timers' = m.tm

\* C17: killPython() with no worker referenced writes nothing, starts no
\* timer and changes nothing; the two killPython() calls made when the window
\* goes have the effect of one call: one quit command written to the
\* referenced worker, one grace timer started.
C17_ShutdownIdempotent ==
  [][TwoShutdowns =>
       /\ pythonProcess = NoWorker => UNCHANGED <<pythonProcess, workerVars, timers>>
       /\ MainBecomes(killPython(Main))]_vars

\* Worker w was given the scan command of the current session.
SessionWorker(w) == \E i \in 1..Len(stdin[w]) : stdin[w][i].session = session

\* The close callback of a worker the reference does not denote leaves the
\* reference as it is.
StaleCloseKeepsReference ==
  \A w \in Workers :
    (CloseStep(w) /\ pythonProcess # w) => pythonProcess' = pythonProcess

\* The process-exit of a worker that is not the running session's worker
\* does not end that session.
LateExitKeepsSession ==
  (/\ HandlesEvent({"process-exit"})
   /\ isScanning
   /\ ~SessionWorker(Head(ipcQueue).from)) => isScanning'

\* C18: the close callback clears the reference only while it denotes the
\* closing worker, and the late close of an older worker does not make a
\* newer running session end as abnormally terminated.
C18_CloseClearsOwn == [][StaleCloseKeepsReference /\ LateExitKeepsSession]_vars

\* C19: a grace timer firing when the reference no longer denotes the worker
\* it was started for kills nothing and leaves the reference as it is.
C19_TimerKillsOwn ==
  [][(TimerStep /\ pythonProcess # Head(timers).for) =>
       UNCHANGED <<worker, pythonProcess>>]_vars

====
